---- MODULE Spec2Model ----
(***************************************************************************)
(* Model of the Cala water heater integration:                             *)
(*   - CalaDataUpdateCoordinator (coordinator.py): the poll cycle          *)
(*     _async_update_data and the daily usage cache _get_daily_usage;      *)
(*   - CalaApiClient (api.py): _graphql_request with its token handling,   *)
(*     the mutations, get_water_heater_status and get_full_status;         *)
(*   - the coordinator's commands (coordinator.py) the entities call.      *)
(* Specification Spec is the coordinator's poll cycle, SpecRequest the     *)
(* client's _graphql_request, SpecCalls the mutations and commands,        *)
(* SpecStatus get_water_heater_status and the entry built from it,         *)
(* SpecFullStatus get_full_status, SpecFlow the config flow and            *)
(* async_setup_entry, SpecTemperature async_set_temperature, and           *)
(* SpecPlatforms the entity platforms' async_setup_entry.                  *)
(***************************************************************************)
EXTENDS Integers, Sequences, FiniteSets, TLC

\* ------------------------------------------------------------------ bounds

\* Number of clock steps the wall clock may advance.
MaxTicks == 3

\* Number of _graphql_request calls in flight on one client.
NumReq == 2

\* --------------------------------------------------------------- constants

\* (now - last_fetch).total_seconds() >= 300
RefreshSeconds == 300

\* Seconds of a calendar day: today = now.date()
DayLen == 86400

\* Granularity of the wall clock: a refresh (on the update interval or on
\* request) finds the clock a multiple of this later than the previous one.
ClockStep == RefreshSeconds \div 2

\* The clock starts one step before local midnight.
StartTime == DayLen - ClockStep

\* "No IoT_id": heater.get("IoT_id") is None
NoIoT == "None"

\* The heaters the vendor can list (id, IoT_id).
Heater(h) ==
    [id |-> h, IoT_id |-> CASE h = "h1" -> "d1" [] h = "h2" -> "d2" [] OTHER -> NoIoT]

\* The lists get_water_heaters can return (each a list of heater records).
Listings ==
    { <<>>,
      <<Heater("h1")>>,
      <<Heater("h3"), Heater("h1")>>,
      <<Heater("h1"), Heater("h2")>> }

HeaterIds == {"h1", "h2", "h3"}

\* A client call returns normally or raises one of the two error kinds.
Outcomes == {"ok", "CalaApiError", "CalaAuthenticationError"}

\* An empty dict.
EmptyDict == [k \in {} |-> 0]

\* dict.get(key, default)
Get(d, k, default) == IF k \in DOMAIN d THEN d[k] ELSE default

\* d[k] = v on a dict
Put(d, k, v) == [x \in DOMAIN d \cup {k} |-> IF x = k THEN v ELSE d[x]]

\* Mutant of Merge: a field both dicts have keeps the value of the first.
Merge_FirstWins(a, b) ==
    [k \in DOMAIN a \cup DOMAIN b |-> IF k \in DOMAIN a THEN a[k] ELSE b[k]]

\* a.update(b) and {**a, **b}: the fields of both, b's value where both have one
Merge(a, b) ==
    [k \in DOMAIN a \cup DOMAIN b |-> IF k \in DOMAIN b THEN b[k] ELSE a[k]]

\* now.date(), as a day number
Date(t) == t \div DayLen

\* {"dailyEnergyUsed": 0.0, "dailyWaterUsed": 0.0}
ZeroPair == [dailyEnergyUsed |-> 0, dailyWaterUsed |-> 0]

\* What get_daily_summary can return for a device and a date:
\* result.get("getDailyDeviceSummary") or {}
Summaries(device, date) ==
    { EmptyDict,
      [deviceId |-> device, date |-> date, energyUsed |-> 0, waterUsed |-> 0],
      [deviceId |-> device, date |-> date, energyUsed |-> 3, waterUsed |-> 7] }

\* None, as a value that can be compared with dicts.
None == [None |-> TRUE]

\* The mutations of CalaApiClient.
Mutations ==
    { "set_temperature", "create_boost_mode", "cancel_boost_mode",
      "create_vacation_mode", "cancel_vacation_mode" }

\* The public methods CalaApiClient defines.
ClientMethods ==
    Mutations \cup
    { "authenticate", "get_homes", "get_water_heaters", "get_water_heater_status",
      "get_device_properties", "get_controls", "get_monitoring_alerts",
      "get_rolling_state", "get_boost_mode", "get_vacation_mode", "get_full_status",
      "get_daily_summary", "get_energy_usage_history" }

\* The coordinator's mode commands.
Commands == {"async_set_operation_mode", "async_turn_on", "async_turn_off"}

\* The client method a command awaits: self.client.<method>(...)
ClientMethodOf(c) ==
    CASE c = "async_set_operation_mode" -> "set_operation_mode"
      [] c = "async_turn_on" -> "turn_on"
      [] c = "async_turn_off" -> "turn_off"

\* The seven requests of get_full_status, by the field each fills.
DictQueries == {"sensor_data", "device_properties", "controls", "alerts", "rolling_state"}

ModeQueries == {"boost_mode", "vacation_mode"}

SubQueries == DictQueries \cup ModeQueries

\* The accounts a user can enter, and passwords.
Usernames == {"u1", "u2"}

Passwords == {"p1", "p2"}

\* What a login attempt meets: Cognito accepts the credentials, rejects
\* them, or the attempt fails for another reason.
AuthCauses == {"accepted", "rejected", "unexpected"}

\* No flow step taken yet, and no result.
NoStep == [step |-> "none", username |-> "none", cause |-> "none", configured |-> FALSE]

NoResult == [type |-> "none", error |-> "none", reason |-> "none"]

VARIABLES
    \* ---- coordinator (program state)
    water_heaters,          \* self.water_heaters, in insertion order
    data,                   \* self.data (a dict), meaningful when ~data_is_none
    data_is_none,           \* self.data is None
    last_update_success,    \* self.last_update_success
    daily_usage_cache,      \* self._daily_usage_cache
    daily_usage_last_fetch, \* self._daily_usage_last_fetch
    current_date,           \* self._current_date
    clock,                  \* wall clock, seconds
    \* ---- the running poll cycle
    pc,                     \* "idle", "polling", "raising"
    now,                    \* local `now` of the cycle
    new_data,               \* local `data` of the cycle
    pending,                \* heaters the loop has not visited yet
    \* ---- what happened in the cycle (observation only)
    discovery,              \* "notcalled", or the outcome of get_water_heaters
    discovered,             \* "no", or what get_water_heaters last returned: "empty", "nonempty"
    fetch,                  \* heater id -> "none", "skipped", or outcome of its try block
    summary_call,           \* heater id -> "none" or outcome of get_daily_summary
    summary_value,          \* heater id -> what get_daily_summary returned in this cycle
    usage_returned,         \* heater id -> what _get_daily_usage returned
    last_call,              \* heater id -> [at, ok] of the latest get_daily_summary call
    cycle_result,           \* "none", "returned", "UpdateFailed"
    \* ---- API client
    access_token,           \* self._access_token, 0 is None
    refresh_token,          \* self._refresh_token, 0 is None
    minted,                 \* tokens Cognito has issued so far
    rpc,                    \* request -> position in _graphql_request
    header,                 \* request -> headers["Authorization"]
    posts,                  \* request -> number of session.post calls
    refreshes,              \* request -> number of _refresh_tokens calls
    status1,                \* request -> status of the first response
    status2,                \* request -> status of the retry's response
    errors1,                \* request -> the first response had a non-empty errors list
    errors2,                \* request -> the retry's response had one
    result,                 \* request -> what the call returned or raised
    \* ---- mutations of the client and commands of the coordinator
    mutation_request,       \* mutation -> "none" or what its _graphql_request came to
    mutation_result,        \* mutation -> "none" or what the mutation returned or raised
    command_result,         \* command -> "none" or what the command returned or raised
    refresh_requested,      \* command -> the command called async_request_refresh
    temp_call,              \* the latest async_set_temperature call: position, arguments, success
    temp_result,            \* "none" or what that call returned or raised
    temp_refresh,           \* that call has called async_request_refresh
    \* ---- status queries
    bucketed_items,         \* items of the latest bucketed sensor data query
    raw_items,              \* items of the latest raw sensor data query
    status_data,            \* what get_water_heater_status returned last
    entry_heater,           \* the heater record of the latest data[heater_id] built
    entry_status,           \* the status, daily fields set, it was built from
    entry,                  \* the latest data[heater_id] built from a status
    full_heater,            \* the water_heater of the latest get_full_status call
    sub_results,            \* sub-query -> what it came to in that call
    full_status,            \* what get_full_status returned
    \* ---- config flow
    config_entries,         \* the config entries of the domain, in creation order
    flow_step,              \* the latest flow step: its input and what authentication met
    flow_result,            \* what that step returned
    \* ---- async_setup_entry, per config entry (by its username)
    hass_data,              \* the entries with a value in hass.data[DOMAIN]
    forwarded,              \* the entries whose platforms are set up
    setup_result,           \* entry -> "none" or what async_setup_entry returned or raised
    setup_auth,             \* entry -> "none" or how authenticate() ended in the latest setup
    setup_refresh,          \* entry -> "none" or how the first refresh ended in it
    \* ---- entity platforms
    entities,               \* platform -> the entities its async_setup_entry added
    entity_source           \* None, or coordinator.data as the platforms read it

coordVars ==
    << water_heaters, data, data_is_none, last_update_success, daily_usage_cache,
       daily_usage_last_fetch, current_date, clock, pc, now, new_data, pending,
       discovery, discovered, fetch, summary_call, summary_value, usage_returned,
       last_call, cycle_result >>

clientVars ==
    << access_token, refresh_token, minted, rpc, header, posts, refreshes,
       status1, status2, errors1, errors2, result >>

tempVars == << temp_call, temp_result, temp_refresh >>

callVars ==
    << mutation_request, mutation_result, command_result, refresh_requested, tempVars >>

statusVars ==
    << bucketed_items, raw_items, status_data, entry_heater, entry_status, entry,
       full_heater,
       sub_results, full_status >>

flowVars == << config_entries, flow_step, flow_result >>

setupVars == << hass_data, forwarded, setup_result, setup_auth, setup_refresh >>

platformVars == << entities, entity_source >>

hostVars == << flowVars, setupVars, platformVars >>

vars == << coordVars, clientVars, callVars, statusVars, hostVars >>

today == Date(now)

NoneYet == [h \in HeaterIds |-> "none"]

\* No async_set_temperature call made yet.
NoTempCall == [pc |-> "idle", heater |-> "none", temperature |-> 0, success |-> "none"]

\* PLATFORMS, in the order of __init__.py.
PLATFORMS == << "water_heater", "sensor", "binary_sensor", "button", "number" >>

Platforms == {PLATFORMS[i] : i \in 1 .. Len(PLATFORMS)}

Req == 1 .. NumReq

Init ==
    /\ water_heaters = <<>>
    /\ data = EmptyDict
    /\ data_is_none = TRUE
    /\ last_update_success = TRUE
    /\ daily_usage_cache = EmptyDict
    /\ daily_usage_last_fetch = EmptyDict
    /\ current_date = EmptyDict
    /\ clock = StartTime
    /\ pc = "idle"
    /\ now = StartTime
    /\ new_data = EmptyDict
    /\ pending = <<>>
    /\ discovery = "notcalled"
    /\ discovered = "no"
    /\ fetch = NoneYet
    /\ summary_call = NoneYet
    /\ summary_value = EmptyDict
    /\ usage_returned = EmptyDict
    /\ last_call = EmptyDict
    /\ cycle_result = "none"
    /\ access_token = 0
    /\ refresh_token = 0
    /\ minted = 0
    /\ rpc = [r \in Req |-> "idle"]
    /\ header = [r \in Req |-> 0]
    /\ posts = [r \in Req |-> 0]
    /\ refreshes = [r \in Req |-> 0]
    /\ status1 = [r \in Req |-> "none"]
    /\ status2 = [r \in Req |-> "none"]
    /\ errors1 = [r \in Req |-> FALSE]
    /\ errors2 = [r \in Req |-> FALSE]
    /\ result = [r \in Req |-> "none"]
    /\ mutation_request = [m \in Mutations |-> "none"]
    /\ mutation_result = [m \in Mutations |-> "none"]
    /\ command_result = [c \in Commands |-> "none"]
    /\ refresh_requested = [c \in Commands |-> FALSE]
    /\ temp_call = NoTempCall
    /\ temp_result = "none"
    /\ temp_refresh = FALSE
    /\ bucketed_items = <<>>
    /\ raw_items = <<>>
    /\ status_data = EmptyDict
    /\ entry_heater = None
    /\ entry_status = EmptyDict
    /\ entry = EmptyDict
    /\ full_heater = None
    /\ sub_results = [q \in SubQueries |-> [raised |-> FALSE, value |-> None]]
    /\ full_status = EmptyDict
    /\ config_entries = <<>>
    /\ flow_step = NoStep
    /\ flow_result = NoResult
    /\ hass_data = {}
    /\ forwarded = {}
    /\ setup_result = [u \in Usernames |-> "none"]
    /\ setup_auth = [u \in Usernames |-> "none"]
    /\ setup_refresh = [u \in Usernames |-> "none"]
    /\ entities = [p \in Platforms |-> <<>>]
    /\ entity_source = None

\* ============================================================ coordinator

\* Time passes between two refreshes.
Tick ==
    /\ pc = "idle"
    /\ clock + ClockStep <= StartTime + MaxTicks * ClockStep
    /\ clock' = clock + ClockStep
    /\ UNCHANGED << water_heaters, data, data_is_none, last_update_success,
                    daily_usage_cache, daily_usage_last_fetch, current_date, pc, now,
                    new_data, pending, discovery, discovered, fetch, summary_call,
                    summary_value, usage_returned, last_call, cycle_result >>
    /\ UNCHANGED << clientVars, callVars, statusVars, hostVars >>

\* Mutant of NeedsDiscovery: the heaters are listed again in every cycle.
NeedsDiscovery_Always == TRUE

\* if not self.water_heaters
NeedsDiscovery == water_heaters = <<>>

\* The heaters get_water_heaters can have gathered, home by home, when a
\* request of a later home (or the listing of the homes) raises.
PartialListings == { <<>>, <<Heater("h1")>>, <<Heater("h3"), Heater("h1")>> }

\* Mutant of DiscoveryFailure: the heaters gathered so far are handed back.
DiscoveryFailure_KeepPartial(partial, exc) == [out |-> exc, listing |-> partial]

\* A request of get_water_heaters raises exc: the exception leaves
\* get_water_heaters and _async_update_data's loop over `heaters` is not
\* reached, so the local list gathered so far is lost.
DiscoveryFailure(partial, exc) == [out |-> exc, listing |-> <<>>]

\* What the discovery step of a cycle can come to: no call when heaters are
\* known, else get_water_heaters returns a list or raises.
DiscoveryResults ==
    IF ~NeedsDiscovery
    THEN { [out |-> "notcalled", listing |-> <<>>] }
    ELSE { [out |-> "ok", listing |-> l] : l \in Listings }
         \cup { DiscoveryFailure(p, o) : p \in PartialListings, o \in Outcomes \ {"ok"} }

\* for heater in heaters: self.water_heaters[heater["id"]] = heater
RecordHeaters(known, heaters) ==
    known \o SelectSeq(heaters, LAMBDA h : \A i \in 1 .. Len(known) : known[i].id # h.id)

\* _async_update_data up to the loop: discovery when no heater is known,
\* then data = {}, now = dt_util.now(), today = now.date().
StartCycle ==
    /\ pc = "idle"
    /\ \E d \in DiscoveryResults :
         LET failed == d.out # "ok" /\ d.out # "notcalled"
             heaters == RecordHeaters(water_heaters, d.listing)
         IN  /\ discovery' = d.out
             /\ discovered' = IF d.out # "ok" THEN discovered
                              ELSE IF d.listing = <<>> THEN "empty" ELSE "nonempty"
             /\ water_heaters' = heaters
             /\ pc' = IF failed THEN "raising" ELSE "polling"
             /\ pending' = IF failed THEN <<>> ELSE heaters
             /\ now' = IF failed THEN now ELSE clock
    /\ new_data' = EmptyDict
    /\ fetch' = NoneYet
    /\ summary_call' = NoneYet
    /\ summary_value' = EmptyDict
    /\ usage_returned' = EmptyDict
    /\ cycle_result' = "none"
    /\ UNCHANGED << data, data_is_none, last_update_success, daily_usage_cache,
                    daily_usage_last_fetch, current_date, clock, last_call >>
    /\ UNCHANGED << clientVars, callVars, statusVars, hostVars >>

\* Mutant of NeedsRefresh: the summary is fetched in every poll.
NeedsRefresh_Always(h) == TRUE

\* Mutant of NeedsRefresh: the cached date is not compared with today.
NeedsRefresh_NoDate(h) ==
    \/ h \notin DOMAIN daily_usage_last_fetch
    \/ now - daily_usage_last_fetch[h] >= RefreshSeconds

\* Mutant of NeedsRefresh: the time since the last fetch is not looked at.
NeedsRefresh_NoElapsed(h) ==
    \/ h \notin DOMAIN daily_usage_last_fetch
    \/ h \notin DOMAIN current_date
    \/ current_date[h] # today

\* needs_refresh of _get_daily_usage
NeedsRefresh(h) ==
    \/ h \notin DOMAIN daily_usage_last_fetch
    \/ h \notin DOMAIN current_date
    \/ current_date[h] # today
    \/ now - daily_usage_last_fetch[h] >= RefreshSeconds

\* Mutant of UsageOnError: the zero pair even when a usage is cached.
UsageOnError_Zero(h) == ZeroPair

\* The except branch of _get_daily_usage: the cached usage, or the zero pair.
UsageOnError(h) ==
    IF h \in DOMAIN daily_usage_cache THEN daily_usage_cache[h] ELSE ZeroPair

\* _get_daily_usage(heater_id, iot_id, today, now) with the outcome `out` of
\* get_daily_summary and the summary `s` it returns: what it returns or raises,
\* and the three caches after it.
GetDailyUsage(h, out, s) ==
    IF ~NeedsRefresh(h)
    THEN [called |-> FALSE, raised |-> "no",
          ret |-> Get(daily_usage_cache, h, ZeroPair),
          cache |-> daily_usage_cache, last_fetch |-> daily_usage_last_fetch,
          date |-> current_date]
    ELSE IF out = "ok"
    THEN [called |-> TRUE, raised |-> "no",
          ret |-> Get(Put(daily_usage_cache, h, s), h, ZeroPair),
          cache |-> Put(daily_usage_cache, h, s),
          last_fetch |-> Put(daily_usage_last_fetch, h, now),
          date |-> Put(current_date, h, today)]
    ELSE IF out = "CalaApiError"
    THEN [called |-> TRUE, raised |-> "no",
          ret |-> UsageOnError(h),
          cache |-> daily_usage_cache, last_fetch |-> daily_usage_last_fetch,
          date |-> current_date]
    ELSE [called |-> TRUE, raised |-> out,
          ret |-> EmptyDict,
          cache |-> daily_usage_cache, last_fetch |-> daily_usage_last_fetch,
          date |-> current_date]

\* _get_midnight_timestamp(today)
MidnightTimestamp(d) == d * DayLen

\* status["dailyEnergyUsed"], status["dailyWaterUsed"], status["dailyResetTime"]
DailyFields(usage) ==
    [dailyEnergyUsed |-> Get(usage, "dailyEnergyUsed", 0),
     dailyWaterUsed |-> Get(usage, "dailyWaterUsed", 0),
     dailyResetTime |-> MidnightTimestamp(today)]

\* status once the three daily fields are set in it
StatusWithDaily(status, usage) == Merge(status, DailyFields(usage))

\* data[heater_id] = {**heater, **status}
Entry(heater, status, usage) == Merge(heater, StatusWithDaily(status, usage))

\* Mutant of KeepLastKnown: the heater is left out of the result.
KeepLastKnown_Drop(h) == new_data

\* except CalaApiError: keep last known data if available
KeepLastKnown(h) ==
    IF ~data_is_none /\ data # EmptyDict /\ h \in DOMAIN data
    THEN Put(new_data, h, data[h])
    ELSE new_data

\* Mutant of CaughtPerHeater: no handler inside the loop.
CaughtPerHeater_None(exc) == FALSE

\* Mutant of CaughtPerHeater: the handler inside the loop catches everything.
CaughtPerHeater_All(exc) == TRUE

\* except CalaApiError inside the loop: the exceptions one heater's try block
\* catches. CalaAuthenticationError is no CalaApiError and goes to the outer
\* handlers.
CaughtPerHeater(exc) == exc = "CalaApiError"

\* One iteration of the loop over self.water_heaters.items().
PollHeater ==
    /\ pc = "polling"
    /\ pending # <<>>
    /\ LET heater == Head(pending)
           h == heater.id
       IN  IF heater.IoT_id = NoIoT
           THEN /\ fetch' = [fetch EXCEPT ![h] = "skipped"]
                /\ pending' = Tail(pending)
                /\ UNCHANGED << pc, new_data, daily_usage_cache, daily_usage_last_fetch,
                                current_date, summary_call, summary_value,
                                usage_returned, last_call >>
           ELSE \E st \in Outcomes, so \in Outcomes,
                   s \in Summaries(heater.IoT_id, today) :
                  LET status == [timestamp |-> now]
                      u == GetDailyUsage(h, so, s)
                      raised == IF st # "ok" THEN st ELSE u.raised
                      ran == st = "ok"
                      called == ran /\ u.called
                  IN  /\ fetch' = [fetch EXCEPT ![h] = IF raised = "no" THEN "ok" ELSE raised]
                      /\ summary_call' =
                            [summary_call EXCEPT ![h] = IF called THEN so ELSE "none"]
                      /\ summary_value' =
                            IF called /\ so = "ok" THEN Put(summary_value, h, s)
                            ELSE summary_value
                      /\ usage_returned' =
                            IF ran /\ u.raised = "no" THEN Put(usage_returned, h, u.ret)
                            ELSE usage_returned
                      /\ last_call' =
                            IF called THEN Put(last_call, h, [at |-> now, ok |-> so = "ok"])
                            ELSE last_call
                      /\ daily_usage_cache' = IF ran THEN u.cache ELSE daily_usage_cache
                      /\ daily_usage_last_fetch' =
                            IF ran THEN u.last_fetch ELSE daily_usage_last_fetch
                      /\ current_date' = IF ran THEN u.date ELSE current_date
                      /\ new_data' =
                            IF raised = "no" THEN Put(new_data, h, Entry(heater, status, u.ret))
                            ELSE IF CaughtPerHeater(raised) THEN KeepLastKnown(h)
                            ELSE new_data
                      /\ pc' = IF raised = "no" \/ CaughtPerHeater(raised) THEN pc
                               ELSE "raising"
                      /\ pending' = IF raised = "no" \/ CaughtPerHeater(raised)
                                    THEN Tail(pending) ELSE <<>>
    /\ UNCHANGED << water_heaters, data, data_is_none, last_update_success, clock, now,
                    discovery, discovered, cycle_result >>
    /\ UNCHANGED << clientVars, callVars, statusVars, hostVars >>

\* return data: the host stores the result of a successful update.
ReturnData ==
    /\ pc = "polling"
    /\ pending = <<>>
    /\ data' = new_data
    /\ data_is_none' = FALSE
    /\ last_update_success' = TRUE
    /\ cycle_result' = "returned"
    /\ pc' = "idle"
    /\ UNCHANGED << water_heaters, daily_usage_cache, daily_usage_last_fetch,
                    current_date, clock, now, new_data, pending, discovery, discovered,
                    fetch, summary_call, summary_value, usage_returned, last_call >>
    /\ UNCHANGED << clientVars, callVars, statusVars, hostVars >>

\* raise UpdateFailed: the host keeps self.data and marks the update failed.
RaiseUpdateFailed ==
    /\ pc = "raising"
    /\ last_update_success' = FALSE
    /\ cycle_result' = "UpdateFailed"
    /\ pc' = "idle"
    /\ UNCHANGED << water_heaters, data, data_is_none, daily_usage_cache,
                    daily_usage_last_fetch, current_date, clock, now, new_data, pending,
                    discovery, discovered, fetch, summary_call, summary_value,
                    usage_returned, last_call >>
    /\ UNCHANGED << clientVars, callVars, statusVars, hostVars >>

\* Mutant of Available: the outcome of the last update is not looked at.
Available_IgnoresSuccess(h) == ~data_is_none /\ h \in DOMAIN data

\* available of CalaSensor, CalaDailySensor and CalaBinarySensor for heater h
Available(h) == last_update_success /\ ~data_is_none /\ h \in DOMAIN data

Next == Tick \/ StartCycle \/ PollHeater \/ ReturnData \/ RaiseUpdateFailed

Spec == Init /\ [][Next]_vars

\* ============================================================= API client

\* HTTP status of a response.
Statuses == {"200", "401", "500"}

\* The body of a response, as response.json() sees it: not JSON at all, or a
\* JSON object with or without the keys "data" and "errors".
Bodies ==
    { [json |-> FALSE, data |-> FALSE, errors |-> "absent"] }
    \cup [json : {TRUE}, data : BOOLEAN, errors : {"absent", "empty", "nonempty"}]

\* What session.post can come to: a response, or aiohttp.ClientError.
Responses == [status : Statuses, body : Bodies]

AllIdle == \A r \in Req : rpc[r] = "idle"

\* The tokens held: [ok, access, refresh, minted].
TokensHeld(ok) ==
    [ok |-> ok, access |-> access_token, refresh |-> refresh_token, minted |-> minted]

\* authenticate(): on success the access token is replaced by a newly issued
\* one, and the refresh token by the one the login gave (None when it gave
\* none); a failure raises CalaAuthenticationError and leaves the tokens.
AuthenticateResult(ok, withRefresh) ==
    IF ok
    THEN [ok |-> TRUE, access |-> minted + 1,
          refresh |-> IF withRefresh THEN minted + 1 ELSE 0, minted |-> minted + 1]
    ELSE TokensHeld(FALSE)

\* Mutant of RenewResult: the renewed access token is not stored.
RenewResult_KeepToken(ok) == TokensHeld(ok)

\* The try block of _refresh_tokens: renew_access_token() replaces the access
\* token and leaves the refresh token; a failure leaves the tokens.
RenewResult(ok) ==
    IF ok
    THEN [ok |-> TRUE, access |-> minted + 1, refresh |-> refresh_token,
          minted |-> minted + 1]
    ELSE TokensHeld(FALSE)

\* Where a call of _refresh_tokens goes first: if not self._refresh_token
RefreshPosition == IF refresh_token = 0 THEN "authenticate" ELSE "renew"

\* The positions inside _refresh_tokens.
Refreshing == {"renew", "authenticate"}

\* Mutant of IsUnauthorized: a 401 is not acted on while another call is
\* refreshing the tokens.
IsUnauthorized_Dedup(status) ==
    status = "401" /\ \A q \in Req : rpc[q] \notin Refreshing

\* Mutant of IsUnauthorized: every status but 200 is taken for an expired token.
IsUnauthorized_Not200(status) == status # "200"

\* if response.status == 401
IsUnauthorized(status) == status = "401"

\* Mutant of BodyResult: errors are looked at only when there is no data.
BodyResult_DataFirst(body) ==
    IF ~body.json THEN "CalaApiError"
    ELSE IF body.data THEN "data"
    ELSE IF body.errors # "absent" THEN "CalaApiError"
    ELSE "{}"

\* From data = await response.json() to the return: ContentTypeError is an
\* aiohttp.ClientError, "errors" in data raises, else data.get("data", {}).
BodyResult(body) ==
    IF ~body.json THEN "CalaApiError"
    ELSE IF body.errors # "absent" THEN "CalaApiError"
    ELSE IF body.data THEN "data"
    ELSE "{}"

\* What the call comes to once the retry's response is in: the retry's status
\* is not looked at.
RetryResult(resp) == BodyResult(resp.body)

\* The response carries a non-empty errors list.
HasErrors(resp) == resp.body.errors = "nonempty"

\* Mutant of NeedsAuthentication: the request is sent with whatever is held.
NeedsAuthentication_Never == FALSE

\* _ensure_authenticated: if not self._access_token
NeedsAuthentication == access_token = 0

\* api_client.authenticate() as async_setup_entry calls it, before any request.
Login ==
    /\ AllIdle
    /\ access_token = 0
    /\ \E withRefresh \in BOOLEAN :
         LET a == AuthenticateResult(TRUE, withRefresh)
         IN  /\ access_token' = a.access
             /\ refresh_token' = a.refresh
             /\ minted' = a.minted
    /\ UNCHANGED << rpc, header, posts, refreshes, status1, status2, errors1,
                    errors2, result >>
    /\ UNCHANGED << coordVars, callVars, statusVars, hostVars >>

\* _graphql_request: _ensure_authenticated, then the first session.post.
SendRequest(r) ==
    /\ rpc[r] = "idle"
    /\ \E authOk \in BOOLEAN, withRefresh \in BOOLEAN :
         LET a == IF NeedsAuthentication THEN AuthenticateResult(authOk, withRefresh)
                  ELSE TokensHeld(TRUE)
         IN  /\ access_token' = a.access
             /\ refresh_token' = a.refresh
             /\ minted' = a.minted
             /\ IF a.ok
                THEN /\ header' = [header EXCEPT ![r] = a.access]
                     /\ posts' = [posts EXCEPT ![r] = @ + 1]
                     /\ rpc' = [rpc EXCEPT ![r] = "post1"]
                     /\ UNCHANGED result
                ELSE /\ result' = [result EXCEPT ![r] = "CalaAuthenticationError"]
                     /\ rpc' = [rpc EXCEPT ![r] = "done"]
                     /\ UNCHANGED << header, posts >>
    /\ UNCHANGED << refreshes, status1, status2, errors1, errors2 >>
    /\ UNCHANGED << coordVars, callVars, statusVars, hostVars >>

\* The first post fails in transport: except aiohttp.ClientError.
FirstPostFails(r) ==
    /\ rpc[r] = "post1"
    /\ status1' = [status1 EXCEPT ![r] = "ClientError"]
    /\ result' = [result EXCEPT ![r] = "CalaApiError"]
    /\ rpc' = [rpc EXCEPT ![r] = "done"]
    /\ UNCHANGED << access_token, refresh_token, minted, header, posts, refreshes,
                    status2, errors1, errors2 >>
    /\ UNCHANGED << coordVars, callVars, statusVars, hostVars >>

\* The first response arrives: a 401 enters _refresh_tokens, any other status
\* has its body read.
FirstResponse(r) ==
    /\ rpc[r] = "post1"
    /\ \E resp \in Responses :
         /\ status1' = [status1 EXCEPT ![r] = resp.status]
         /\ errors1' = [errors1 EXCEPT ![r] = HasErrors(resp)]
         /\ IF IsUnauthorized(resp.status)
            THEN /\ rpc' = [rpc EXCEPT ![r] = RefreshPosition]
                 /\ refreshes' = [refreshes EXCEPT ![r] = @ + 1]
                 /\ UNCHANGED result
            ELSE /\ rpc' = [rpc EXCEPT ![r] = "done"]
                 /\ result' = [result EXCEPT ![r] = BodyResult(resp.body)]
                 /\ UNCHANGED refreshes
    /\ UNCHANGED << access_token, refresh_token, minted, header, posts, status2,
                    errors2 >>
    /\ UNCHANGED << coordVars, callVars, statusVars, hostVars >>

\* _refresh_tokens has ended with tokens a: when it returned normally,
\* headers["Authorization"] = self._access_token and the second session.post;
\* when it raised, CalaAuthenticationError leaves _graphql_request.
RefreshEnds(r, a) ==
    /\ access_token' = a.access
    /\ refresh_token' = a.refresh
    /\ minted' = a.minted
    /\ IF a.ok
       THEN /\ header' = [header EXCEPT ![r] = a.access]
            /\ posts' = [posts EXCEPT ![r] = @ + 1]
            /\ rpc' = [rpc EXCEPT ![r] = "post2"]
            /\ UNCHANGED result
       ELSE /\ result' = [result EXCEPT ![r] = "CalaAuthenticationError"]
            /\ rpc' = [rpc EXCEPT ![r] = "done"]
            /\ UNCHANGED << header, posts >>

\* renew_access_token() returns in _refresh_tokens: the retry is sent.
RenewAccessToken(r) ==
    /\ rpc[r] = "renew"
    /\ RefreshEnds(r, RenewResult(TRUE))
    /\ UNCHANGED << refreshes, status1, status2, errors1, errors2 >>
    /\ UNCHANGED << coordVars, callVars, statusVars, hostVars >>

\* renew_access_token() raises in _refresh_tokens: except Exception, then
\* await self.authenticate().
RenewFails(r) ==
    /\ rpc[r] = "renew"
    /\ rpc' = [rpc EXCEPT ![r] = "authenticate"]
    /\ UNCHANGED << access_token, refresh_token, minted, header, posts, refreshes,
                    status1, status2, errors1, errors2, result >>
    /\ UNCHANGED << coordVars, callVars, statusVars, hostVars >>

\* authenticate() ends in _refresh_tokens, called for want of a refresh token
\* or after a failed renewal.
Reauthenticate(r) ==
    /\ rpc[r] = "authenticate"
    /\ \E authOk \in BOOLEAN, withRefresh \in BOOLEAN :
         RefreshEnds(r, AuthenticateResult(authOk, withRefresh))
    /\ UNCHANGED << refreshes, status1, status2, errors1, errors2 >>
    /\ UNCHANGED << coordVars, callVars, statusVars, hostVars >>

\* The retry fails in transport: except aiohttp.ClientError.
RetryPostFails(r) ==
    /\ rpc[r] = "post2"
    /\ status2' = [status2 EXCEPT ![r] = "ClientError"]
    /\ result' = [result EXCEPT ![r] = "CalaApiError"]
    /\ rpc' = [rpc EXCEPT ![r] = "done"]
    /\ UNCHANGED << access_token, refresh_token, minted, header, posts, refreshes,
                    status1, errors1, errors2 >>
    /\ UNCHANGED << coordVars, callVars, statusVars, hostVars >>

\* The retry's response arrives: data = await retry_response.json().
RetryResponse(r) ==
    /\ rpc[r] = "post2"
    /\ \E resp \in Responses :
         /\ status2' = [status2 EXCEPT ![r] = resp.status]
         /\ errors2' = [errors2 EXCEPT ![r] = HasErrors(resp)]
         /\ result' = [result EXCEPT ![r] = RetryResult(resp)]
    /\ rpc' = [rpc EXCEPT ![r] = "done"]
    /\ UNCHANGED << access_token, refresh_token, minted, header, posts, refreshes,
                    status1, errors1 >>
    /\ UNCHANGED << coordVars, callVars, statusVars, hostVars >>

NextRequest ==
    \/ Login
    \/ \E r \in Req :
         \/ SendRequest(r)
         \/ FirstPostFails(r)
         \/ FirstResponse(r)
         \/ RenewAccessToken(r)
         \/ RenewFails(r)
         \/ Reauthenticate(r)
         \/ RetryPostFails(r)
         \/ RetryResponse(r)

SpecRequest == Init /\ [][NextRequest]_vars

\* ================================================= mutations and commands

\* What _graphql_request can come to for its caller: the outcome of a body
\* read, a transport failure, or a failed login or refresh.
RequestResults ==
    {BodyResult(b) : b \in Bodies} \cup {"CalaApiError", "CalaAuthenticationError"}

\* Mutant of MutationResult: CalaApiError is not caught.
MutationResult_Propagates(g) ==
    IF g \in {"CalaApiError", "CalaAuthenticationError"} THEN g ELSE "True"

\* try: await self._graphql_request(...); return True
\* except CalaApiError: return False
MutationResult(g) ==
    CASE g = "CalaApiError" -> "False"
      [] g = "CalaAuthenticationError" -> "CalaAuthenticationError"
      [] OTHER -> "True"

\* One of the five mutations is called and its request comes to g.
Mutation(m) ==
    /\ \E g \in RequestResults :
         /\ mutation_request' = [mutation_request EXCEPT ![m] = g]
         /\ mutation_result' = [mutation_result EXCEPT ![m] = MutationResult(g)]
    /\ UNCHANGED << command_result, refresh_requested, tempVars >>
    /\ UNCHANGED << coordVars, clientVars, statusVars, hostVars >>

\* success = await self.client.<method>(...): a method the client does not
\* define raises AttributeError at the attribute lookup.
CallClient(method, g) ==
    IF method \in ClientMethods THEN MutationResult(g) ELSE "AttributeError"

\* What a command comes to: it returns success, returns False on
\* CalaApiError, and lets any other exception through.
CommandResult(success) == IF success = "CalaApiError" THEN "False" ELSE success

\* async_set_operation_mode, async_turn_on or async_turn_off of the
\* coordinator, as the water heater entity awaits it.
Command(c) ==
    /\ \E g \in RequestResults :
         LET success == CallClient(ClientMethodOf(c), g)
         IN  /\ command_result' = [command_result EXCEPT ![c] = CommandResult(success)]
             /\ refresh_requested' = [refresh_requested EXCEPT ![c] = (success = "True")]
    /\ UNCHANGED << mutation_request, mutation_result, tempVars >>
    /\ UNCHANGED << coordVars, clientVars, statusVars, hostVars >>

NextCalls ==
    \/ \E m \in Mutations : Mutation(m)
    \/ \E c \in Commands : Command(c)

SpecCalls == Init /\ [][NextCalls]_vars

\* =========================================================== status queries

\* The items the bucketed sensor data query can return (limit: 1).
BucketedLists ==
    { <<>>,
      << [deviceId |-> "d1", timestamp |-> 1, topTankTemp |-> 50, energyUsed |-> 3] >>,
      << [deviceId |-> "d1", timestamp |-> 2, topTankTemp |-> 51, energyUsed |-> 4] >> }

\* The items the raw sensor data query can return (limit: 1).
RawLists ==
    { <<>>,
      << [deviceId |-> "d1", timestamp |-> 2, topTankTemp |-> 52, compRunning |-> TRUE] >>,
      << [deviceId |-> "d1", timestamp |-> 3, topTankTemp |-> 50, compRunning |-> FALSE] >> }

\* get_water_heater_status from the items of its two requests:
\* data = {}; data.update(bucketed_items[0]); data.update(raw_items[0])
WaterHeaterStatus(bucketed, raw) ==
    LET withBucketed == IF bucketed # <<>> THEN Merge(EmptyDict, bucketed[1])
                        ELSE EmptyDict
    IN  IF raw # <<>> THEN Merge(withBucketed, raw[1]) ELSE withBucketed

\* get_water_heater_status returns.
GetWaterHeaterStatus ==
    /\ \E b \in BucketedLists, r \in RawLists :
         /\ bucketed_items' = b
         /\ raw_items' = r
         /\ status_data' = WaterHeaterStatus(b, r)
    /\ UNCHANGED << entry_heater, entry_status, entry, full_heater, sub_results,
                    full_status >>
    /\ UNCHANGED << coordVars, clientVars, callVars, hostVars >>

\* The try block of the poll loop for a heater with an IoT_id:
\* get_water_heater_status, _get_daily_usage, then data[heater_id].
PollStatus(h) ==
    /\ Heater(h).IoT_id # NoIoT
    /\ \E b \in BucketedLists, r \in RawLists,
          usage \in {ZeroPair} \cup Summaries(Heater(h).IoT_id, today) :
         /\ bucketed_items' = b
         /\ raw_items' = r
         /\ status_data' = WaterHeaterStatus(b, r)
         /\ entry_heater' = Heater(h)
         /\ entry_status' = StatusWithDaily(WaterHeaterStatus(b, r), usage)
         /\ entry' = Entry(Heater(h), WaterHeaterStatus(b, r), usage)
    /\ UNCHANGED << full_heater, sub_results, full_status >>
    /\ UNCHANGED << coordVars, clientVars, callVars, hostVars >>

NextStatus ==
    \/ GetWaterHeaterStatus
    \/ \E h \in HeaterIds : PollStatus(h)

SpecStatus == Init /\ [][NextStatus]_vars

\* ========================================================= set temperature

\* The statuses a stored entry can be built from: the bucketed item, when
\* there is one, has every field its query names, the raw item likewise.
StoredStatuses ==
    { WaterHeaterStatus(b, r) :
          b \in { <<>>, << [deviceId |-> "d1", timestamp |-> 1, topTankTemp |-> 50,
                            hotLiters |-> 7, userDesiredTemp |-> 48] >> },
          r \in { <<>>, << [topTankTemp |-> 52, compFreq |-> 60] >> } }

\* What a poll cycle can return: an entry for some of the heaters that have
\* an IoT_id.
StoredData ==
    UNION { [S -> {Entry(Heater(h), st, ZeroPair) : h \in S, st \in StoredStatuses}] :
                S \in SUBSET {"h1", "h2"} }

\* A refresh has succeeded and the host has stored what _async_update_data
\* returned.
CoordinatorRefreshed ==
    /\ \E d \in StoredData :
         /\ \A h \in DOMAIN d : d[h].id = h
         /\ data' = d
    /\ data_is_none' = FALSE
    /\ last_update_success' = TRUE
    /\ UNCHANGED << water_heaters, daily_usage_cache, daily_usage_last_fetch,
                    current_date, clock, pc, now, new_data, pending, discovery,
                    discovered, fetch, summary_call, summary_value, usage_returned,
                    last_call, cycle_result >>
    /\ UNCHANGED << clientVars, callVars, statusVars, hostVars >>

\* The temperatures a caller asks for.
Temperatures == {48, 55}

\* Mutant of SetLocalTemperature: the local data is left as it is.
SetLocalTemperature_Skip(d, h, t) == d

\* if heater_id in self.data: self.data[heater_id]["userDesiredTemp"] = temperature
SetLocalTemperature(d, h, t) ==
    IF h \in DOMAIN d THEN [d EXCEPT ![h] = Put(@, "userDesiredTemp", t)] ELSE d

\* async_set_temperature up to its await of async_request_refresh: the client
\* call, and on success the write to self.data. `in self.data` raises
\* TypeError while self.data is None.
SetTemperature(h, t) ==
    /\ temp_call.pc \in {"idle", "done"}
    /\ \E g \in RequestResults :
         LET success == CallClient("set_temperature", g)
             written == success = "True" /\ ~data_is_none
         IN  /\ temp_call' =
                   [pc |-> IF written THEN "request_refresh" ELSE "done",
                    heater |-> h, temperature |-> t, success |-> success]
             /\ temp_result' =
                   CASE written -> "none"
                     [] success = "True" -> "TypeError"
                     [] OTHER -> CommandResult(success)
             /\ data' = IF written THEN SetLocalTemperature(data, h, t) ELSE data
    /\ temp_refresh' = FALSE
    /\ UNCHANGED << water_heaters, data_is_none, last_update_success,
                    daily_usage_cache, daily_usage_last_fetch, current_date, clock,
                    pc, now, new_data, pending, discovery, discovered, fetch,
                    summary_call, summary_value, usage_returned, last_call,
                    cycle_result >>
    /\ UNCHANGED << mutation_request, mutation_result, command_result, refresh_requested >>
    /\ UNCHANGED << clientVars, statusVars, hostVars >>

\* await self.async_request_refresh(); return success
RequestRefresh ==
    /\ temp_call.pc = "request_refresh"
    /\ temp_call' = [temp_call EXCEPT !.pc = "done"]
    /\ temp_result' = "True"
    /\ temp_refresh' = TRUE
    /\ UNCHANGED << mutation_request, mutation_result, command_result, refresh_requested >>
    /\ UNCHANGED << coordVars, clientVars, statusVars, hostVars >>

NextTemperature ==
    \/ CoordinatorRefreshed
    \/ \E h \in HeaterIds, t \in Temperatures : SetTemperature(h, t)
    \/ RequestRefresh

SpecTemperature == Init /\ [][NextTemperature]_vars

\* The heater records get_full_status can be given: with and without a home,
\* and without an IoT_id.
FullStatusHeaters ==
    { Merge(Heater("h1"), [homeId |-> "home1"]), Heater("h1"), Heater("h3") }

\* A sub-request that raised.
Raised == [raised |-> TRUE, value |-> None]

\* A sub-request that returned v.
Returned(v) == [raised |-> FALSE, value |-> v]

\* No sub-request made.
NoSubResults == [q \in SubQueries |-> Returned(None)]

\* Some of what the sensor data request can return.
SensorStatuses == {WaterHeaterStatus(b, <<>>) : b \in BucketedLists}

\* What listVacationByHomeIdAndStartDate can hold for a home at time t: no
\* vacation, or the latest one started, flagged active or not (a cancelled
\* vacation keeps its record, with active = false), ended or not.
VacationLists(t) ==
    {<<>>} \cup
    { << [id |-> "v1", endDate |-> e, active |-> a] >> :
          e \in {t - 1, t + 1}, a \in BOOLEAN }

\* get_vacation_mode: the first item when its endDate is after now.
GetVacationMode(items, t) ==
    IF items # <<>> /\ Get(items[1], "endDate", 0) > t THEN items[1] ELSE None

\* What the task of field q can come to for heater w: each request returns or
\* raises; asyncio.sleep(0) takes the place of the vacation request when the
\* heater has no homeId.
SubOutcomes(q, w) ==
    CASE q = "sensor_data" -> {Returned(v) : v \in SensorStatuses} \cup {Raised}
      [] q = "boost_mode" ->
            { Returned(None), Returned([id |-> "b1", active |-> TRUE]),
              Returned([id |-> "b1", active |-> FALSE]), Raised }
      [] q = "vacation_mode" ->
            IF "homeId" \in DOMAIN w
            THEN {Returned(GetVacationMode(items, clock)) : items \in VacationLists(clock)}
                 \cup {Raised}
            ELSE {Returned(None)}
      [] OTHER -> {Returned([source |-> q]), Raised}

\* Mutant of Settle: a failed request leaves an empty dict in every field.
Settle_AlwaysDict(res, empty) == IF res.raised THEN EmptyDict ELSE res.value

\* x = x if not isinstance(x, Exception) else <empty>
Settle(res, empty) == IF res.raised THEN empty ELSE res.value

\* bool(v) of None or a dict
Truthy(v) == v # None /\ v # EmptyDict

\* The dict get_full_status returns from the gathered results.
FullStatus(w, res) ==
    LET boost == Settle(res["boost_mode"], None)
        vacation == Settle(res["vacation_mode"], None)
    IN  [water_heater |-> w,
         sensor_data |-> Settle(res["sensor_data"], EmptyDict),
         device_properties |-> Settle(res["device_properties"], EmptyDict),
         controls |-> Settle(res["controls"], EmptyDict),
         alerts |-> Settle(res["alerts"], EmptyDict),
         rolling_state |-> Settle(res["rolling_state"], EmptyDict),
         boost_mode |-> boost,
         vacation_mode |-> vacation,
         is_boost_active |-> Truthy(boost) /\ Get(boost, "active", FALSE),
         is_vacation_active |-> Truthy(vacation)]

\* get_full_status(water_heater): {} without an IoT_id, else the seven
\* requests gathered with return_exceptions=True.
GetFullStatus ==
    \E w \in FullStatusHeaters :
        /\ full_heater' = w
        /\ IF w.IoT_id = NoIoT
           THEN /\ sub_results' = NoSubResults
                /\ full_status' = EmptyDict
           ELSE \E sensor \in SubOutcomes("sensor_data", w),
                   props \in SubOutcomes("device_properties", w),
                   controls \in SubOutcomes("controls", w),
                   alerts \in SubOutcomes("alerts", w),
                   rolling \in SubOutcomes("rolling_state", w),
                   boost \in SubOutcomes("boost_mode", w),
                   vacation \in SubOutcomes("vacation_mode", w) :
                  LET res == [sensor_data |-> sensor, device_properties |-> props,
                              controls |-> controls, alerts |-> alerts,
                              rolling_state |-> rolling, boost_mode |-> boost,
                              vacation_mode |-> vacation]
                  IN  /\ sub_results' = res
                      /\ full_status' = FullStatus(w, res)
        /\ UNCHANGED << bucketed_items, raw_items, status_data, entry_heater,
                        entry_status, entry >>
        /\ UNCHANGED << coordVars, clientVars, callVars, hostVars >>

NextFullStatus == GetFullStatus

SpecFullStatus == Init /\ [][NextFullStatus]_vars

\* ===================================================== config flow and setup

\* client.authenticate(): True, or CalaAuthenticationError for every
\* exception of the login.
AuthenticateOutcome(cause) ==
    IF cause = "accepted" THEN "True" ELSE "CalaAuthenticationError"

\* An entry with unique id u exists: _abort_if_unique_id_configured() then
\* raises AbortFlow.
UniqueIdConfigured(u) ==
    \E i \in 1 .. Len(config_entries) : config_entries[i].unique_id = u

\* The try block of async_step_user: what it returns, or the exception that
\* leaves it.
UserStepBody(u, cause) ==
    LET auth == AuthenticateOutcome(cause)
    IN  IF auth = "True"
        THEN IF UniqueIdConfigured(u) THEN "AbortFlow" ELSE "create_entry"
        ELSE IF auth = "False" THEN "invalid_auth"
        ELSE auth

\* The try block of async_step_reauth_confirm.
ReauthStepBody(cause) ==
    LET auth == AuthenticateOutcome(cause)
    IN  IF auth = "True" THEN "reauth_successful"
        ELSE IF auth = "False" THEN "invalid_auth"
        ELSE auth

\* The result of a step from what its try block came to: except Exception
\* sets errors["base"] = "unknown", and the form is shown with the errors.
StepResult(body) ==
    CASE body = "create_entry" -> [type |-> "create_entry", error |-> "none", reason |-> "none"]
      [] body = "reauth_successful" ->
            [type |-> "abort", error |-> "none", reason |-> "reauth_successful"]
      [] body = "invalid_auth" -> [type |-> "form", error |-> "invalid_auth", reason |-> "none"]
      [] OTHER -> [type |-> "form", error |-> "unknown", reason |-> "none"]

\* Mutant of StoredWhen: the entry's value is stored before the first refresh.
StoredWhen_Authenticated(auth, refresh) == auth = "ok"

\* async_setup_entry reaches hass.data[DOMAIN][entry.entry_id] = {...} and
\* the forwarding of the platforms.
StoredWhen(auth, refresh) == auth = "ok" /\ refresh = "ok"

\* async_setup_entry for entry u, from stored values hd and forwarded
\* platforms fw, with authenticate() and the first refresh ending as given:
\* the state of the setup after it.
SetupEntryResult(u, hd, fw, auth, refresh) ==
    LET stored == StoredWhen(auth, refresh)
    IN  [hass_data |-> IF stored THEN hd \cup {u} ELSE hd,
         forwarded |-> IF stored THEN fw \cup {u} ELSE fw,
         result |-> IF auth # "ok" THEN "ConfigEntryAuthFailed"
                    ELSE IF refresh # "ok" THEN "ConfigEntryNotReady"
                    ELSE "True",
         auth |-> auth,
         refresh |-> IF auth = "ok" THEN refresh ELSE "none"]

\* The outcomes of authenticate() and of the first refresh in a setup.
SetupOutcomes == {"ok", "failed"}

\* The setup variables take the values of a setup result.
SetupIs(u, r) ==
    /\ hass_data' = r.hass_data
    /\ forwarded' = r.forwarded
    /\ setup_result' = [setup_result EXCEPT ![u] = r.result]
    /\ setup_auth' = [setup_auth EXCEPT ![u] = r.auth]
    /\ setup_refresh' = [setup_refresh EXCEPT ![u] = r.refresh]

\* async_step_user without input: the empty form.
ShowUserForm ==
    /\ flow_step' = [NoStep EXCEPT !.step = "user"]
    /\ flow_result' = [type |-> "form", error |-> "none", reason |-> "none"]
    /\ UNCHANGED << config_entries, setupVars >>
    /\ UNCHANGED << coordVars, clientVars, callVars, statusVars, platformVars >>

\* async_step_user with a username and a password.
UserStep ==
    /\ \E u \in Usernames, p \in Passwords, cause \in AuthCauses :
         LET body == UserStepBody(u, cause)
         IN  /\ flow_step' = [step |-> "user", username |-> u, cause |-> cause,
                              configured |-> UniqueIdConfigured(u)]
             /\ flow_result' = StepResult(body)
             /\ config_entries' =
                   IF body = "create_entry"
                   THEN Append(config_entries, [unique_id |-> u, username |-> u,
                                                password |-> p])
                   ELSE config_entries
    /\ UNCHANGED setupVars
    /\ UNCHANGED << coordVars, clientVars, callVars, statusVars, platformVars >>

\* async_setup_entry of an entry that is not set up (the host calls it after
\* the entry is created, and again after ConfigEntryNotReady).
SetupEntry(i) ==
    /\ i \in 1 .. Len(config_entries)
    /\ setup_result[config_entries[i].username] # "True"
    /\ \E auth \in SetupOutcomes, refresh \in SetupOutcomes :
         SetupIs(config_entries[i].username,
                 SetupEntryResult(config_entries[i].username, hass_data, forwarded,
                                  auth, refresh))
    /\ UNCHANGED flowVars
    /\ UNCHANGED << coordVars, clientVars, callVars, statusVars, platformVars >>

\* async_unload_entry of an entry that is set up: the value is popped when
\* the platforms unload.
UnloadEntry(i) ==
    /\ i \in 1 .. Len(config_entries)
    /\ setup_result[config_entries[i].username] = "True"
    /\ \E unload_ok \in BOOLEAN :
         LET u == config_entries[i].username
         IN  IF unload_ok
             THEN /\ hass_data' = hass_data \ {u}
                  /\ forwarded' = forwarded \ {u}
                  /\ setup_result' = [setup_result EXCEPT ![u] = "none"]
                  /\ setup_auth' = [setup_auth EXCEPT ![u] = "none"]
                  /\ setup_refresh' = [setup_refresh EXCEPT ![u] = "none"]
             ELSE UNCHANGED setupVars
    /\ UNCHANGED flowVars
    /\ UNCHANGED << coordVars, clientVars, callVars, statusVars, platformVars >>

\* async_step_reauth_confirm with a password for entry i: on success the
\* entry's password is replaced and the entry is reloaded: unloaded when it
\* is set up, then, unless the unload failed, set up.
ReauthStep(i) ==
    /\ i \in 1 .. Len(config_entries)
    /\ \E p \in Passwords, cause \in AuthCauses, unload_ok \in BOOLEAN,
          auth \in SetupOutcomes, refresh \in SetupOutcomes :
         LET u == config_entries[i].username
             body == ReauthStepBody(cause)
         IN  /\ flow_step' = [step |-> "reauth_confirm", username |-> u,
                              cause |-> cause, configured |-> TRUE]
             /\ flow_result' = StepResult(body)
             /\ IF body = "reauth_successful"
                THEN /\ config_entries' = [config_entries EXCEPT ![i].password = p]
                     /\ IF setup_result[u] = "True" /\ ~unload_ok
                        THEN UNCHANGED setupVars
                        ELSE SetupIs(u, SetupEntryResult(u, hass_data \ {u},
                                                         forwarded \ {u}, auth, refresh))
                ELSE UNCHANGED << config_entries, setupVars >>
    /\ UNCHANGED << coordVars, clientVars, callVars, statusVars, platformVars >>

NextFlow ==
    \/ ShowUserForm
    \/ UserStep
    \/ \E i \in 1 .. Cardinality(Usernames) :
         \/ SetupEntry(i)
         \/ UnloadEntry(i)
         \/ ReauthStep(i)

SpecFlow == Init /\ [][NextFlow]_vars

\* ========================================================= entity platforms

\* The keys of SENSOR_DESCRIPTIONS, in order.
SENSOR_DESCRIPTIONS ==
    << "topTankTemp", "upperTankTemp", "lowerTankTemp", "outletTemp", "inletTemp",
       "ambientTemp", "energyUsed", "litersUsed", "hotLiters", "userDesiredTemp",
       "userMaxTemp", "uptime", "compFreq", "deliveryTemp", "deliveryPressure",
       "suctionPressure", "hotLiters", "compSpeed", "shutoffTemp", "ambientHumidity",
       "flowRate", "superHeat", "exvPos", "liquidLineTemp", "suctionLineTemp",
       "topTankRawTemp", "upperTankRawTemp", "lowerTankRawTemp", "compAcceleration",
       "compCurrent", "compVoltage", "compAccel", "lockout", "compFlags",
       "firmwareVersion", "efrFirmwareVersion", "networkMode", "reactiveCapacity" >>

\* The keys of DAILY_SENSOR_DESCRIPTIONS.
DAILY_SENSOR_DESCRIPTIONS == << "dailyEnergyUsed", "dailyWaterUsed" >>

\* The keys of BINARY_SENSOR_DESCRIPTIONS.
BINARY_SENSOR_DESCRIPTIONS == << "status", "safetyLockout", "compRunning", "fanPwr" >>

\* The keys of NUMBER_DESCRIPTIONS.
NUMBER_DESCRIPTIONS == << "boost_duration", "vacation_duration" >>

\* The keys of BUTTON_DESCRIPTIONS.
BUTTON_DESCRIPTIONS == << "boost_mode", "cancel_boost", "vacation_mode", "cancel_vacation" >>

\* sanitize_entity_id: lower case, every other character than a-z, 0-9 and _
\* to _, runs of _ to one, no _ at either end. The heater ids of the model
\* are lower case letters and digits, which it leaves as they are.
sanitize_entity_id(entity_id) == entity_id

\* f"cala_{heater_id}_{description.key}"
UniqueId(heater_id, key) == "cala_" \o heater_id \o "_" \o key

\* An entity of class cls for heater h, made from the i-th description of
\* its tuple (0 for the water heater, which has none).
Entity(cls, h, i, key, unique_id) ==
    [cls |-> cls, heater |-> h, desc |-> i, key |-> key, unique_id |-> unique_id]

\* One entity per description of a tuple.
PerDescription(cls, h, descriptions) ==
    [i \in 1 .. Len(descriptions) |->
        Entity(cls, h, i, descriptions[i],
               IF cls = "CalaModeButton"
               THEN UniqueId(sanitize_entity_id(h), descriptions[i])
               ELSE UniqueId(h, descriptions[i]))]

\* coordinator.data.items(): the heaters of the data in the order the poll
\* loop inserted them.
DataItems(d) == SelectSeq(<< "h1", "h2", "h3" >>, LAMBDA h : h \in DOMAIN d)

\* The concatenation of a list of lists.
RECURSIVE Flatten(_)
Flatten(lists) == IF lists = <<>> THEN <<>> ELSE Head(lists) \o Flatten(Tail(lists))

\* entities.append(...) for every heater of the data, when the data is not
\* empty; perHeater[h] is what the loop body appends for heater h.
ForEachHeater(d, perHeater) ==
    IF d # EmptyDict
    THEN Flatten([i \in 1 .. Len(DataItems(d)) |-> perHeater[DataItems(d)[i]]])
    ELSE <<>>

\* Mutant of HasData: every description gets its sensor.
HasData_Always(heater_data, key) == TRUE

\* if description.key in heater_data
HasData(heater_data, key) == key \in DOMAIN heater_data

\* async_setup_entry of sensor.py
SetupSensor(d) ==
    ForEachHeater(d,
        [h \in DOMAIN d |->
            SelectSeq(PerDescription("CalaSensor", h, SENSOR_DESCRIPTIONS),
                      LAMBDA e : HasData(d[h], e.key))
            \o PerDescription("CalaDailySensor", h, DAILY_SENSOR_DESCRIPTIONS)])

\* async_setup_entry of binary_sensor.py
SetupBinarySensor(d) ==
    ForEachHeater(d, [h \in DOMAIN d |-> PerDescription("CalaBinarySensor", h, BINARY_SENSOR_DESCRIPTIONS)])

\* async_setup_entry of number.py
SetupNumber(d) ==
    ForEachHeater(d, [h \in DOMAIN d |-> PerDescription("CalaDurationNumber", h, NUMBER_DESCRIPTIONS)])

\* async_setup_entry of button.py
SetupButton(d) ==
    ForEachHeater(d, [h \in DOMAIN d |-> PerDescription("CalaModeButton", h, BUTTON_DESCRIPTIONS)])

\* async_setup_entry of water_heater.py: one entity per heater, with
\* f"cala_{heater_id}" as its unique id.
SetupWaterHeater(d) ==
    Flatten([i \in 1 .. Len(DataItems(d)) |->
                << Entity("CalaWaterHeater", DataItems(d)[i], 0, "",
                          "cala_" \o DataItems(d)[i]) >>])

\* hass.config_entries.async_forward_entry_setups(entry, PLATFORMS): every
\* platform's async_setup_entry reads coordinator.data, which is a dict once
\* the first refresh has succeeded.
ForwardEntrySetups ==
    /\ ~data_is_none
    /\ entities' = [p \in Platforms |->
                       CASE p = "water_heater" -> SetupWaterHeater(data)
                         [] p = "sensor" -> SetupSensor(data)
                         [] p = "binary_sensor" -> SetupBinarySensor(data)
                         [] p = "button" -> SetupButton(data)
                         [] p = "number" -> SetupNumber(data)]
    /\ entity_source' = data
    /\ UNCHANGED << flowVars, setupVars >>
    /\ UNCHANGED << coordVars, clientVars, callVars, statusVars >>

NextPlatforms ==
    \/ CoordinatorRefreshed
    \/ ForwardEntrySetups

SpecPlatforms == Init /\ [][NextPlatforms]_vars

\* ================================================================= claims

\* A cycle has ended (and no other has begun).
CycleEnded == pc = "idle" /\ cycle_result # "none"

\* A step that begins a poll cycle.
CycleStarts == pc = "idle" /\ pc' # "idle"

\* A step that ends a poll cycle.
CycleEnds == pc # "idle" /\ pc' = "idle"

\* The heaters whose try block made a request in the cycle.
Requested == {h \in HeaterIds : fetch[h] \notin {"none", "skipped"}}

\* ---- C1
\* C1 as stated: a finished _graphql_request whose first response was a 401 has
\* called _refresh_tokens exactly once and posted exactly twice; any other has
\* not refreshed and has posted at most once.
C1_Original ==
    \A r \in Req :
        rpc[r] = "done" =>
            IF status1[r] = "401"
            THEN refreshes[r] = 1 /\ posts[r] = 2
            ELSE refreshes[r] = 0 /\ posts[r] <= 1

\* C1 amended: a call whose first response is a 401 calls _refresh_tokens
\* exactly once; it posts the request again exactly once when _refresh_tokens
\* returns normally and not at all when _refresh_tokens raises; the retry's
\* response, whatever its status, ends the call. A call whose first response is
\* not a 401 never refreshes and never posts again.
C1_RefreshOnceRetryOnce ==
    \A r \in Req :
        /\ rpc[r] = "idle" => posts[r] = 0 /\ refreshes[r] = 0
        /\ rpc[r] = "post1" => posts[r] = 1 /\ refreshes[r] = 0
        /\ rpc[r] \in Refreshing => posts[r] = 1 /\ refreshes[r] = 1 /\ status1[r] = "401"
        /\ rpc[r] = "post2" => posts[r] = 2 /\ refreshes[r] = 1 /\ status1[r] = "401"
        /\ rpc[r] = "done" =>
              IF status1[r] = "401"
              THEN /\ refreshes[r] = 1
                   /\ IF status2[r] = "none"
                      THEN posts[r] = 1 /\ result[r] = "CalaAuthenticationError"
                      ELSE posts[r] = 2
              ELSE refreshes[r] = 0 /\ posts[r] <= 1 /\ status2[r] = "none"

\* A call answered 401 twice has ended after one refresh and two posts.
C1_Witness ==
    \E r \in Req :
        /\ rpc[r] = "done"
        /\ status1[r] = "401"
        /\ status2[r] = "401"
        /\ refreshes[r] = 1
        /\ posts[r] = 2

\* ---- C2
\* C2: when the request retried after a 401 fails again (its response is not a
\* 200, or the post fails in transport), _graphql_request raises CalaApiError.
C2_RetryFailureRaises ==
    \A r \in Req :
        (rpc[r] = "done" /\ status2[r] \in {"401", "500", "ClientError"})
            => result[r] = "CalaApiError"

\* ---- C3
\* C3 as stated: once get_water_heaters has returned normally, even with an
\* empty list, no later poll cycle calls it.
C3_Original ==
    [][(CycleStarts /\ discovered # "no") => discovery' = "notcalled"]_vars

\* C3 amended: once get_water_heaters has returned a non-empty list no later
\* cycle calls it again; until then (also after it returned an empty list)
\* every cycle calls it.
C3_DiscoveryUntilNonEmpty ==
    [][CycleStarts => (discovery' = "notcalled" <=> discovered = "nonempty")]_vars

\* A cycle has run without discovery after an earlier one listed heaters.
C3_Witness ==
    /\ CycleEnded
    /\ discovered = "nonempty"
    /\ discovery = "notcalled"

\* ---- C4
\* Authentication failed in the cycle.
AuthFailed ==
    \/ discovery = "CalaAuthenticationError"
    \/ \E h \in HeaterIds : fetch[h] = "CalaAuthenticationError"

\* Every request of the cycle failed with a transport error.
AllTransportFailed ==
    \/ discovery = "CalaApiError"
    \/ /\ discovery = "notcalled"
       /\ Requested # {}
       /\ \A h \in Requested : fetch[h] = "CalaApiError"

C5_HeaterFailureIsolated ==
    (CycleEnded /\ (\E h \in HeaterIds : fetch[h] = "CalaApiError") /\ ~AuthFailed)
        => /\ cycle_result = "returned"
           /\ last_update_success
           /\ \A g \in HeaterIds :
                 fetch[g] = "ok" => g \in DOMAIN data /\ data[g].timestamp = now

\* One heater failed, another was polled, in either order of the loop.
C5_Witness ==
    /\ CycleEnded
    /\ fetch["h1"] = "ok"
    /\ fetch["h2"] = "CalaApiError"
    /\ cycle_result = "returned"
    /\ data["h1"].timestamp = now

\* ---- C6
\* C6: a heater in coordinator.data whose fetch raises in a cycle is in
\* coordinator.data after the cycle with the entry it had, and no cycle takes
\* a heater out of coordinator.data.
C6_LastKnownKept ==
    [][\A h \in DOMAIN data :
          /\ h \in DOMAIN data'
          /\ (CycleEnds /\ fetch[h] \in {"CalaApiError", "CalaAuthenticationError"})
                => data'[h] = data[h]]_vars

\* A returned cycle holds an entry older than the cycle for a heater whose
\* fetch raised in it.
C6_Witness ==
    /\ CycleEnded
    /\ cycle_result = "returned"
    /\ \E h \in DOMAIN data : fetch[h] = "CalaApiError" /\ data[h].timestamp < now

\* ---- C7
\* get_daily_summary is called for h in this step.
SummaryCalled(h) == summary_call[h] = "none" /\ summary_call'[h] # "none"

\* Date changed or 5 minutes elapsed between time t and the cycle's now.
WindowOver(t) == Date(now) # Date(t) \/ now - t >= RefreshSeconds

\* C7 as stated: between two calls of get_daily_summary for one heater either
\* the date has changed or at least 300 seconds have elapsed.
C7_Original ==
    [][\A h \in DOMAIN last_call :
          SummaryCalled(h) => WindowOver(last_call[h].at)]_vars

\* C7 amended: between a call of get_daily_summary that returned normally and
\* the next call for the same heater either the date has changed or at least
\* 300 seconds have elapsed; after a call that raised, the next poll calls
\* again at once.
C7_NoRefetchAfterSuccess ==
    [][\A h \in DOMAIN last_call :
          (SummaryCalled(h) /\ last_call[h].ok) => WindowOver(last_call[h].at)]_vars

\* A summary is asked for again on the day of, and 300 seconds after, the
\* last successful fetch.
C7_Witness ==
    \E h \in DOMAIN daily_usage_last_fetch :
        /\ summary_call[h] = "CalaApiError"
        /\ last_call[h].at = now
        /\ now - daily_usage_last_fetch[h] >= RefreshSeconds
        /\ Date(daily_usage_last_fetch[h]) = today

\* ---- C8
\* C8: after a successful get_daily_summary for h the entry of h in the poll
\* result carries the energy and the water of that summary (0 when empty).
C8_DailyUsageIsSummary ==
    \A h \in DOMAIN summary_value :
        (CycleEnded /\ cycle_result = "returned" /\ fetch[h] = "ok")
            => /\ data[h].dailyEnergyUsed = Get(summary_value[h], "energyUsed", 0)
               /\ data[h].dailyWaterUsed = Get(summary_value[h], "waterUsed", 0)

\* ---- C9
\* The usage returned for h is a cached one (not the zero pair) and the cache
\* holds it for another date than today.
StaleReturned(h) ==
    /\ usage_returned[h] # ZeroPair
    /\ (h \notin DOMAIN current_date \/ current_date[h] # today)

\* C9 as stated: _get_daily_usage never returns a usage cached for another
\* date than the poll's.
C9_Original == \A h \in DOMAIN usage_returned : ~StaleReturned(h)

\* C9 amended: _get_daily_usage returns a usage cached for another date than
\* the poll's only when the fetch for the new date failed with CalaApiError in
\* that poll; in every other poll the returned usage is the cached one and is
\* cached for today.
C9_StaleOnlyOnFetchFailure ==
    \A h \in DOMAIN usage_returned :
        IF summary_call[h] = "CalaApiError"
        THEN usage_returned[h] =
                IF h \in DOMAIN daily_usage_cache THEN daily_usage_cache[h] ELSE ZeroPair
        ELSE /\ ~StaleReturned(h)
             /\ h \in DOMAIN daily_usage_cache
             /\ usage_returned[h] = daily_usage_cache[h]
             /\ current_date[h] = today

\* After a date change the fetch failed and yesterday's usage was returned.
C9_Witness ==
    \E h \in DOMAIN usage_returned :
        /\ summary_call[h] = "CalaApiError"
        /\ h \in DOMAIN current_date
        /\ current_date[h] # today
        /\ usage_returned[h] = daily_usage_cache[h]

\* ---- C10
\* C10: when get_daily_summary raises CalaApiError, _get_daily_usage returns
\* the cached usage of the heater, or the zero pair when none is cached, and
\* the heater's freshly polled status is in the cycle's result.
C10_SummaryFailureFallsBack ==
    \A h \in HeaterIds :
        summary_call[h] = "CalaApiError" =>
            /\ fetch[h] = "ok"
            /\ h \in DOMAIN usage_returned
            /\ usage_returned[h] =
                  IF h \in DOMAIN daily_usage_cache THEN daily_usage_cache[h] ELSE ZeroPair
            /\ h \in DOMAIN new_data
            /\ new_data[h].timestamp = now
            /\ cycle_result = "returned" => data[h] = new_data[h]

\* The summary fetch failed with a usage cached, and the cycle returned.
C10_Witness ==
    \E h \in DOMAIN daily_usage_cache :
        /\ summary_call[h] = "CalaApiError"
        /\ cycle_result = "returned"
        /\ usage_returned[h] = daily_usage_cache[h]
        /\ data[h].timestamp = now

\* ---- C11
\* The daily usage of h is due: no fetch recorded, another cached date than
\* today, or 300 seconds since the recorded fetch.
UsageDue(h) ==
    \/ h \notin DOMAIN daily_usage_last_fetch
    \/ h \notin DOMAIN current_date
    \/ current_date[h] # today
    \/ now - daily_usage_last_fetch[h] >= RefreshSeconds

\* _get_daily_usage runs for h in this step and returns.
UsageAsked(h) == h \notin DOMAIN usage_returned /\ h \in DOMAIN usage_returned'

\* C11: whenever _get_daily_usage runs for a heater whose daily usage is due,
\* it calls get_daily_summary for today's date; and a successful fetch sets
\* the cache value, the cached date and the last-fetch time of the heater to
\* that fetch's summary, today and now.
C11_RefreshedWhenDue ==
    [][\A h \in HeaterIds :
          /\ (UsageAsked(h) /\ UsageDue(h)) => summary_call'[h] # "none"
          /\ (SummaryCalled(h) /\ summary_call'[h] = "ok") =>
                /\ Get(summary_value'[h], "date", today) = today
                /\ daily_usage_cache'[h] = summary_value'[h]
                /\ current_date'[h] = today
                /\ daily_usage_last_fetch'[h] = now]_vars

\* A summary was fetched 300 seconds after midnight, for a heater that had one
\* fetched at midnight or before.
C11_Witness ==
    \E h \in DOMAIN summary_value :
        /\ summary_call[h] = "ok"
        /\ now >= DayLen + RefreshSeconds
        /\ h \in DOMAIN data
        /\ data[h].timestamp < now
        /\ daily_usage_last_fetch[h] = now
        /\ current_date[h] = today
        /\ daily_usage_cache[h] = summary_value[h]
        /\ summary_value[h] # EmptyDict

\* ---- C12
\* C12 as stated: a call that got a response with a non-empty errors list, as
\* its first response or as the retry's response, raises CalaApiError.
C12_Original ==
    \A r \in Req :
        (rpc[r] = "done" /\ (errors1[r] \/ errors2[r])) => result[r] = "CalaApiError"

\* C12 amended: a call raises CalaApiError, whatever data the response has,
\* when a response whose body it reads has a non-empty errors list: the first
\* response unless its status is 401, and the retry's response. The body of a
\* first response with status 401 is not read.
C12_ErrorsInReadBodyRaise ==
    \A r \in Req :
        rpc[r] = "done" =>
            /\ (errors1[r] /\ status1[r] # "401") => result[r] = "CalaApiError"
            /\ errors2[r] => result[r] = "CalaApiError"

\* One call has ended on errors in a first response with status 200, another
\* on errors in the response of its retry.
C12_Witness ==
    \E r1, r2 \in Req :
        /\ rpc[r1] = "done" /\ status1[r1] = "200" /\ errors1[r1]
        /\ result[r1] = "CalaApiError"
        /\ rpc[r2] = "done" /\ status1[r2] = "401" /\ errors2[r2]
        /\ result[r2] = "CalaApiError"

C17_SubQueryFailuresIsolated ==
    (full_heater # None /\ full_heater.IoT_id # NoIoT) =>
        /\ full_status # EmptyDict
        /\ full_status.water_heater = full_heater
        /\ \A q \in DictQueries :
              full_status[q] = IF sub_results[q].raised THEN EmptyDict
                               ELSE sub_results[q].value
        /\ \A q \in ModeQueries :
              full_status[q] = IF sub_results[q].raised THEN None
                               ELSE sub_results[q].value

\* All seven requests of a call have raised.
C17_Witness ==
    /\ full_heater # None
    /\ "homeId" \in DOMAIN full_heater
    /\ \A q \in SubQueries : sub_results[q].raised
    /\ full_status.sensor_data = EmptyDict
    /\ full_status.vacation_mode = None

\* ---- C18
\* C18: _refresh_tokens goes to authenticate() when no refresh token is held
\* and to the renewal otherwise; a failed renewal goes on to authenticate()
\* and does not end the call; and when _refresh_tokens returns normally the
\* retry is posted with the access token that refresh or login has just
\* obtained, which is not the token the 401 was received with.
C18_RetryCarriesNewToken ==
    [][\A r \in Req :
          /\ (rpc[r] = "post1" /\ rpc'[r] \in Refreshing) =>
                (rpc'[r] = "authenticate" <=> refresh_token = 0)
          /\ rpc[r] = "renew" => rpc'[r] \in {"renew", "authenticate", "post2"}
          /\ (rpc[r] \in Refreshing /\ rpc'[r] = "post2") =>
                /\ minted' = minted + 1
                /\ access_token' = minted'
                /\ header'[r] = access_token'
                /\ header'[r] # header[r]]_vars

\* A lone call holding no refresh token has been answered 401 and has posted
\* its retry with the token of the login it then made.
C18_Witness ==
    \E r \in Req :
        /\ rpc[r] = "post2"
        /\ \A q \in Req \ {r} : rpc[q] = "idle"
        /\ refresh_token = 0
        /\ minted = 2
        /\ header[r] = 2
        /\ access_token = 2

\* ---- C13
\* C13: each of set_temperature, create_boost_mode, cancel_boost_mode,
\* create_vacation_mode and cancel_vacation_mode returns True when its request
\* returns, returns False when its request raises CalaApiError, and never
\* lets a CalaApiError through to its caller.
C13_MutationsReturnFlag ==
    \A m \in Mutations :
        /\ mutation_request[m] \in {"data", "{}"} => mutation_result[m] = "True"
        /\ mutation_request[m] = "CalaApiError" => mutation_result[m] = "False"
        /\ mutation_result[m] # "CalaApiError"

\* Every mutation has been called, set_temperature with a failing request and
\* cancel_boost_mode with one that returned.
C13_Witness ==
    /\ \A m \in Mutations : mutation_request[m] # "none"
    /\ mutation_request["set_temperature"] = "CalaApiError"
    /\ mutation_result["set_temperature"] = "False"
    /\ mutation_request["cancel_boost_mode"] = "data"
    /\ mutation_result["cancel_boost_mode"] = "True"

\* ---- C14
\* C14: async_set_operation_mode, async_turn_on and async_turn_off of the
\* coordinator end with True or False and never raise, and the refresh is
\* requested exactly when the result is True.
C14_CommandsReturnFlag ==
    \A c \in Commands :
        /\ command_result[c] \in {"none", "True", "False"}
        /\ refresh_requested[c] <=> command_result[c] = "True"

\* ---- C15
\* C15: a CalaAuthenticationError in a poll cycle surfaces to the host as
\* ConfigEntryAuthFailed, never as a plain update failure.
C15_AuthFailureIsReauth ==
    (CycleEnded /\ AuthFailed) => cycle_result = "ConfigEntryAuthFailed"

\* ---- C19
\* The keys of self.water_heaters.
HeaterKeys(w) == {w[i].id : i \in 1 .. Len(w)}

\* C19: once coordinator.water_heaters is non-empty no step adds or removes a
\* heater, whatever the fetch outcomes.
C19_HeatersNeverChange ==
    [][water_heaters # <<>> =>
          /\ HeaterKeys(water_heaters') = HeaterKeys(water_heaters)
          /\ water_heaters' = water_heaters]_vars

\* A cycle after the discovery cycle has ended with both heaters known, one
\* of them failing in it.
C19_Witness ==
    /\ CycleEnded
    /\ discovery = "notcalled"
    /\ HeaterKeys(water_heaters) = {"h1", "h2"}
    /\ \E h \in HeaterIds : fetch[h] = "CalaApiError"

\* ---- C20
\* The first item of a list of items, {} when there is none.
FirstItem(items) == IF items = <<>> THEN EmptyDict ELSE items[1]

\* C20: the later source wins. What get_water_heater_status returns has the
\* fields of the bucketed item and of the raw item, with the raw item's value
\* for a field both have; and data[heater_id] has the fields of the heater
\* record and of the status, with the status's value for a field both have.
C20_LaterSourceWins ==
    /\ DOMAIN status_data = DOMAIN FirstItem(bucketed_items) \cup DOMAIN FirstItem(raw_items)
    /\ \A k \in DOMAIN status_data :
          status_data[k] = IF k \in DOMAIN FirstItem(raw_items)
                           THEN FirstItem(raw_items)[k]
                           ELSE FirstItem(bucketed_items)[k]
    /\ entry_heater # None =>
          /\ DOMAIN entry = DOMAIN entry_heater \cup DOMAIN entry_status
          /\ \A k \in DOMAIN entry :
                entry[k] = IF k \in DOMAIN entry_status THEN entry_status[k]
                           ELSE entry_heater[k]

\* A status has been put together from a bucketed and a raw item that differ
\* in topTankTemp and timestamp, and an entry has been built for a heater.
C20_Witness ==
    /\ bucketed_items # <<>>
    /\ raw_items # <<>>
    /\ bucketed_items[1].topTankTemp # raw_items[1].topTankTemp
    /\ bucketed_items[1].timestamp # raw_items[1].timestamp
    /\ status_data.topTankTemp = raw_items[1].topTankTemp
    /\ status_data.energyUsed = bucketed_items[1].energyUsed
    /\ status_data.compRunning = raw_items[1].compRunning
    /\ entry_heater # None
    /\ entry.id = entry_heater.id
    /\ entry.timestamp = entry_status.timestamp

\* ---- C22
\* C22: discovery is all or nothing. A cycle whose get_water_heaters raises
\* leaves coordinator.water_heaters empty and goes on to raise UpdateFailed,
\* and the cycle that follows calls get_water_heaters again.
C22_DiscoveryAllOrNothing ==
    [][/\ (CycleStarts /\ discovery' \in Outcomes \ {"ok"}) =>
              /\ water_heaters' = <<>>
              /\ pc' = "raising"
       /\ (CycleEnds /\ discovery \in Outcomes \ {"ok"}) =>
              /\ cycle_result' = "UpdateFailed"
              /\ water_heaters' = <<>>
       /\ (CycleStarts /\ discovery \in Outcomes \ {"ok"}) => discovery' # "notcalled"]_vars

\* A cycle whose discovery raised has ended, and the one before it had also
\* failed to list any heater.
C22_Witness ==
    /\ CycleEnded
    /\ clock > StartTime
    /\ discovery = "CalaApiError"
    /\ discovered = "no"
    /\ cycle_result = "UpdateFailed"
    /\ water_heaters = <<>>

\* ---- C23
\* C23: async_setup_entry stores the entry's coordinator and client and
\* forwards the platforms only after authenticate() and the first refresh
\* both succeeded; a failing authenticate() ends it with ConfigEntryAuthFailed
\* and a failing first refresh with ConfigEntryNotReady, with nothing stored
\* for the entry and no platform set up.
C23_StoredOnlyAfterBoth ==
    \A u \in Usernames :
        /\ u \in hass_data => (setup_auth[u] = "ok" /\ setup_refresh[u] = "ok")
        /\ u \in forwarded => (setup_auth[u] = "ok" /\ setup_refresh[u] = "ok")
        /\ setup_result[u] = "True" => (u \in hass_data /\ u \in forwarded)
        /\ setup_auth[u] = "failed" =>
              /\ setup_result[u] = "ConfigEntryAuthFailed"
              /\ setup_refresh[u] = "none"
        /\ (setup_auth[u] = "ok" /\ setup_refresh[u] = "failed") =>
              setup_result[u] = "ConfigEntryNotReady"

\* One entry is set up and stored, another has failed its first refresh and
\* has nothing stored.
C23_Witness ==
    \E u1, u2 \in Usernames :
        /\ setup_result[u1] = "True" /\ u1 \in hass_data /\ u1 \in forwarded
        /\ setup_result[u2] = "ConfigEntryNotReady" /\ u2 \notin hass_data
        /\ u2 \notin forwarded

\* ---- C26
\* C26: no two config entries have the same username; a user step with
\* accepted credentials for a username already configured is aborted, without
\* creating an entry and without showing the form again; one for a new
\* username creates an entry with the username as unique id.
C26_DuplicateAborted ==
    /\ \A i, j \in 1 .. Len(config_entries) :
          config_entries[i].username = config_entries[j].username => i = j
    /\ (flow_step.step = "user" /\ flow_step.cause = "accepted") =>
          IF flow_step.configured
          THEN flow_result.type = "abort"
          ELSE /\ flow_result.type = "create_entry"
               /\ \E i \in 1 .. Len(config_entries) :
                     config_entries[i].unique_id = flow_step.username

\* ---- C27
\* C27: in the user step and in the re-auth confirm step, credentials that
\* authentication rejects show the form with error invalid_auth, and error
\* unknown is shown only for an unexpected exception.
C27_RejectedIsInvalidAuth ==
    /\ flow_step.cause = "rejected" =>
          (flow_result.type = "form" /\ flow_result.error = "invalid_auth")
    /\ flow_result.error = "unknown" => flow_step.cause = "unexpected"

\* ---- C29
\* C29: an entity of heater h is available exactly when the last update
\* succeeded, coordinator.data is not None and h is a key of it. So when a
\* cycle returns in which the fetch of h failed and h had a snapshot, the
\* entity is available, on that snapshot; and when a cycle raises
\* UpdateFailed no entity is available.
C29_AvailableAfterCycle ==
    [][CycleEnds =>
          \A h \in HeaterIds :
              /\ Available(h)' <=>
                    (last_update_success' /\ ~data_is_none' /\ h \in DOMAIN data')
              /\ (cycle_result' = "returned" /\ fetch[h] = "CalaApiError"
                    /\ ~data_is_none /\ h \in DOMAIN data) =>
                    (Available(h)' /\ data'[h] = data[h])
              /\ cycle_result' = "UpdateFailed" => ~Available(h)']_vars

\* A cycle has returned with a heater on its last snapshot, its entities
\* available; the cycle discovered nothing, so the heater was known before.
C29_Witness ==
    /\ CycleEnded
    /\ cycle_result = "returned"
    /\ discovery = "notcalled"
    /\ \E h \in HeaterIds :
          /\ fetch[h] = "CalaApiError"
          /\ Available(h)
          /\ data[h].timestamp < now

\* ---- C24
\* A step in which call r runs _ensure_authenticated and, unless that raises,
\* sends its first post.
Sends(r) == rpc[r] = "idle" /\ rpc'[r] # "idle"

\* C24: every post carries a non-null access token. A call made while a token
\* is held sends it without running authenticate(); a call made without one
\* runs authenticate() first and sends the token the login gave, or, when the
\* login fails, ends with CalaAuthenticationError with nothing sent. The
\* retry after a refresh carries a token as well.
C24_PostsCarryToken ==
    [][\A r \in Req :
          /\ (Sends(r) /\ access_token # 0) =>
                /\ rpc'[r] = "post1"
                /\ header'[r] = access_token
                /\ minted' = minted
          /\ (Sends(r) /\ access_token = 0) =>
                \/ /\ rpc'[r] = "post1"
                   /\ minted' = minted + 1
                   /\ header'[r] = minted'
                \/ /\ rpc'[r] = "done"
                   /\ result'[r] = "CalaAuthenticationError"
                   /\ posts'[r] = 0
          /\ posts'[r] > posts[r] => header'[r] # 0]_vars

\* One call has ended without a post on a failed login; another, made
\* afterwards, has logged in and sent its post with the new token.
C24_Witness ==
    \E r1, r2 \in Req :
        /\ rpc[r1] = "done" /\ result[r1] = "CalaAuthenticationError"
        /\ posts[r1] = 0 /\ status1[r1] = "none"
        /\ rpc[r2] = "post1" /\ posts[r2] = 1
        /\ header[r2] = access_token /\ access_token = 1

\* ---- C30
\* C30: get_full_status reports a mode active only for a vendor session that
\* is flagged active: is_boost_active only with a boost record whose active
\* is true, is_vacation_active only with a vacation record whose active is
\* true and whose end time is in the future, so not for a vacation that
\* cancel_vacation_mode has set to active = false.
C30_ActiveOnlyWhenFlagged ==
    (full_heater # None /\ full_status # EmptyDict) =>
        /\ full_status.is_boost_active =>
              /\ full_status.boost_mode # None
              /\ full_status.boost_mode.active
        /\ full_status.is_vacation_active =>
              /\ full_status.vacation_mode # None
              /\ full_status.vacation_mode.active
              /\ full_status.vacation_mode.endDate > clock

\* ---- C25
\* A step of async_set_temperature from its start.
TempCalled == temp_call.pc # "request_refresh" /\ temp_call' # temp_call

Created(p, cls, h, i) ==
    Cardinality({n \in 1 .. Len(entities[p]) :
                    /\ entities[p][n].cls = cls
                    /\ entities[p][n].heater = h
                    /\ entities[p][n].desc = i})

\* C21: the sensor platform adds one CalaSensor for description d and heater
\* h exactly when d.key is a key of coordinator.data[h], the two daily usage
\* sensors for every heater of coordinator.data, and nothing else; no
\* platform adds an entity for a heater that is not in the data.
C21_SensorsPerDataPoint ==
    entity_source # None =>
        /\ \A h \in HeaterIds :
              /\ \A i \in 1 .. Len(SENSOR_DESCRIPTIONS) :
                    Created("sensor", "CalaSensor", h, i) =
                        IF h \in DOMAIN entity_source
                           /\ SENSOR_DESCRIPTIONS[i] \in DOMAIN entity_source[h]
                        THEN 1 ELSE 0
              /\ \A i \in 1 .. Len(DAILY_SENSOR_DESCRIPTIONS) :
                    Created("sensor", "CalaDailySensor", h, i) =
                        IF h \in DOMAIN entity_source THEN 1 ELSE 0
        /\ \A n \in 1 .. Len(entities["sensor"]) :
              LET e == entities["sensor"][n]
              IN  \/ /\ e.cls = "CalaSensor"
                     /\ e.desc \in 1 .. Len(SENSOR_DESCRIPTIONS)
                     /\ e.key = SENSOR_DESCRIPTIONS[e.desc]
                  \/ /\ e.cls = "CalaDailySensor"
                     /\ e.desc \in 1 .. Len(DAILY_SENSOR_DESCRIPTIONS)
                     /\ e.key = DAILY_SENSOR_DESCRIPTIONS[e.desc]
        /\ \A p \in Platforms : \A n \in 1 .. Len(entities[p]) :
              entities[p][n].heater \in DOMAIN entity_source

\* The platforms were set up from a data with both heaters, one with the
\* bucketed fields and one with the raw fields only: the first has its
\* hotLiters sensors and no compFreq sensor, the second the reverse, both
\* have their daily sensors.
C21_Witness ==
    /\ entity_source # None
    /\ DOMAIN entity_source = {"h1", "h2"}
    /\ "hotLiters" \in DOMAIN entity_source["h1"]
    /\ "compFreq" \notin DOMAIN entity_source["h1"]
    /\ "hotLiters" \notin DOMAIN entity_source["h2"]
    /\ "compFreq" \in DOMAIN entity_source["h2"]
    /\ Created("sensor", "CalaSensor", "h1", 9) = 1
    /\ Created("sensor", "CalaSensor", "h1", 13) = 0
    /\ Created("sensor", "CalaSensor", "h2", 9) = 0
    /\ Created("sensor", "CalaSensor", "h2", 13) = 1
    /\ Created("sensor", "CalaDailySensor", "h2", 1) = 1

\* ---- C28
\* C28: the unique ids of the entities created for a config entry are
\* pairwise distinct, across the five platforms.
C28_UniqueIdsDistinct ==
    \A p1, p2 \in Platforms :
        \A n1 \in 1 .. Len(entities[p1]), n2 \in 1 .. Len(entities[p2]) :
            (p1 # p2 \/ n1 # n2) =>
                entities[p1][n1].unique_id # entities[p2][n2].unique_id

====
